---- MODULE Spec2Model ----
(***************************************************************************)
(* gb-packing-visualizer: parse_input (src/src/parse.rs) reads a linker    *)
(* placement log from stdin into a Sequence; render (src/src/render.rs)    *)
(* walks the Sequence's attempts, draws each on a Canvas and hands one     *)
(* frame per attempt to the H.264 encoder and the MP4 muxer.               *)
(*                                                                         *)
(* Representation of Canvas::pixels (a Vec<u8> of 3 bytes per pixel,       *)
(* row-major): the byte length, and for every colour other than white the  *)
(* set of pixel numbers (x + y * width) that hold it; a pixel in none of   *)
(* the sets holds the initial value (255,255,255).  PixelAt gives the      *)
(* colour of a pixel.                                                      *)
(*                                                                         *)
(* u32 arithmetic: an overflow panics when the build has overflow checks   *)
(* (debug profile) and wraps modulo 2^32 otherwise (release profile).      *)
(* The variable overflow_checks is the profile of the binary that runs.    *)
(* TLC's integers end at 2^31 - 1, so a bank index and the bank count,     *)
(* which range over all of u32, are pairs <<hi, lo>> of 16-bit halves      *)
(* (value hi * 2^16 + lo); every other quantity is a plain integer.        *)
(***************************************************************************)
EXTENDS Integers, Sequences, FiniteSets, TLC

VARIABLES
    overflow_checks, \* build profile: TRUE = u32 overflow panics, FALSE = wraps
    pc,              \* where the process is
    line_no,         \* parse_input: lines read so far
    nb_banks,        \* parse_input: the derived bank count (Sequence.nb_banks)
    frames,          \* parse_input: Vec<Frame> (Sequence.frames)
    sections,        \* parse_input: Vec<Section> (Sequence.sections)
    canvas,          \* render: the Canvas (bank_width, nb_banks, pixels)
    iter,            \* render: number of frames the iterator has consumed
    writer,          \* render: the samples written to the Mp4Writer, in order
    frame,           \* render: the buffer the last overlay call returned
    calls,           \* history: the Canvas calls and sample writes made, in order
    err              \* the error main reports (parse or render), or NoError

vars == <<overflow_checks, pc, line_no, nb_banks, frames, sections,
          canvas, iter, writer, frame, calls, err>>

-----------------------------------------------------------------------------
(* Bounds of the model *)

\* lines read from stdin by one run of parse_input
MaxLines == 5
\* Canvas calls made in the Canvas-only specification
MaxCalls == 2
\* largest bank count given to Canvas::new in the geometry specification
MaxNbBanks == 64

-----------------------------------------------------------------------------
(* Machine integers *)

U16 == 65536

\* a u32 as <<hi, lo>>, and back (the value must be below 2^31)
U(n) == <<n \div U16, n % U16>>
V(u) == u[1] * U16 + u[2]
UGe(a, b) == a[1] > b[1] \/ (a[1] = b[1] /\ a[2] >= b[2])
ULt(a, b) == ~UGe(a, b)

Min(a, b) == IF a <= b THEN a ELSE b

\* min(v, c) in u32 arithmetic, where v is the result of a subtraction that
\* wrapped when it is negative here (it is then v + 2^32, above any c)
MinWrapped(v, c) == IF v < 0 THEN c ELSE Min(v, c)

RECURSIVE Pow2Ge(_, _)
Pow2Ge(n, p) == IF p >= n THEN p ELSE Pow2Ge(n, 2 * p)

\* u32::next_power_of_two: the smallest power of two >= n; when that is 2^32
\* the call panics with overflow checks and returns 0 without.
next_power_of_two(n) ==
    IF UGe(U(1073741824), n)
    THEN [overflow |-> FALSE, value |-> U(Pow2Ge(V(n), 1))]
    ELSE IF UGe(<<32768, 0>>, n)
    THEN [overflow |-> FALSE, value |-> <<32768, 0>>]
    ELSE [overflow |-> TRUE, value |-> <<0, 0>>]

-----------------------------------------------------------------------------
(* Canvas: constants *)

HEIGHT == 512
MAX_WIDTH == HEIGHT * 2
SPACER_WIDTH == 2
MAX_BANK_WIDTH == 32 - SPACER_WIDTH
BANK_SIZE == 16384
BYTES_PER_ROW == BANK_SIZE \div HEIGHT

WHITE == <<255, 255, 255>>
BLACK == <<0, 0, 0>>
FILLED_COLOR == <<0, 255, 0>>
OVERLAY_COLOR == <<255, 0, 0>>
Inks == {BLACK, FILLED_COLOR, OVERLAY_COLOR}

NoCanvas == [bank_width |-> 0, nb_banks |-> 0, pixels |-> [len |-> 0, ink |-> [c \in Inks |-> {}]]]
NoFrame == [len |-> 0, ink |-> [c \in Inks |-> {}]]

\* vec![255; len]
BlankPixels(len) == [len |-> len, ink |-> [c \in Inks |-> {}]]

\* the colour of pixel number p of a buffer
PixelAt(pixels, p) ==
    IF \E c \in Inks : p \in pixels.ink[c]
    THEN CHOOSE c \in Inks : p \in pixels.ink[c]
    ELSE WHITE

\* Canvas::n_banks_width
n_banks_width(bank_width, nb) == (bank_width + SPACER_WIDTH) * nb - SPACER_WIDTH

\* Canvas::width
Width(cv) == n_banks_width(cv.bank_width, cv.nb_banks)

\* Canvas::write_color applied to every pixel number of idxs: the three bytes
\* at 3 * i are set to color; an index past the end of the slice panics.
WriteColors(pixels, idxs, color) ==
    IF \E i \in idxs : 3 * i + 2 >= pixels.len
    THEN [panic |-> TRUE, pixels |-> pixels]
    ELSE [panic |-> FALSE,
          pixels |-> [pixels EXCEPT !.ink =
                         [c \in Inks |-> IF c = color THEN @[c] \cup idxs ELSE @[c] \ idxs]]]

\* a faulty variant of BankWidthRaw: the "& !1" that rounds the quotient down
\* to an even number is left out
BankWidthUnaligned(nb) == (MAX_WIDTH \div nb) - SPACER_WIDTH

\* ((MAX_WIDTH / nb_banks) & !1) - SPACER_WIDTH; negative: the subtraction
\* overflows
BankWidthRaw(nb) == ((MAX_WIDTH \div nb) \div 2) * 2 - SPACER_WIDTH

\* the bank_width Canvas::new picks
BankWidthOf(nb) == MinWrapped(BankWidthRaw(nb), MAX_BANK_WIDTH)

\* the pixel numbers of the separator columns Canvas::new draws
Separators(bank_width, nb, width) ==
    { bank * (bank_width + SPACER_WIDTH) - xofs + y * width :
        y \in 0..(HEIGHT - 1), bank \in 1..(nb - 1), xofs \in 1..SPACER_WIDTH }

\* Canvas::new: [panic, canvas]
CanvasNew(nb, checks) ==
    IF nb = 0
    THEN [panic |-> TRUE, canvas |-> NoCanvas]          \* division by zero
    ELSE
    LET bank_width == BankWidthOf(nb)
        width == n_banks_width(bank_width, nb)
        overflow == BankWidthRaw(nb) < 0
        blank == BlankPixels(width * HEIGHT * 3)
        drawn == WriteColors(blank, Separators(bank_width, nb, width), BLACK)
    IN  IF (overflow /\ checks) \/ drawn.panic
        THEN [panic |-> TRUE, canvas |-> NoCanvas]
        ELSE [panic |-> FALSE,
              canvas |-> [bank_width |-> bank_width, nb_banks |-> nb, pixels |-> drawn.pixels]]

\* draw_rect: the rows it fills
FirstByteRow(location) == (location.addr % BANK_SIZE) \div BYTES_PER_ROW
LastByteRow(location, nb_bytes) ==
    MinWrapped((location.addr % BANK_SIZE) + nb_bytes - 1, BANK_SIZE - 1) \div BYTES_PER_ROW

\* draw_rect: the pixel numbers its two loops hand to write_color
RectWrites(location, nb_bytes, width, bank_width) ==
    LET x == V(location.bank) * (bank_width + SPACER_WIDTH)
    IN UNION { (x + 0 + y * width)..(x + (bank_width - 1) + y * width) :
                 y \in FirstByteRow(location)..LastByteRow(location, nb_bytes) }

\* draw_rect: addr + nb_bytes - 1 overflows (an empty section at the first
\* byte of a bank)
RectOverflows(location, nb_bytes) == (location.addr % BANK_SIZE) + nb_bytes - 1 < 0

\* Canvas::draw_rect: [panic, pixels]
draw_rect(pixels, location, nb_bytes, width, bank_width, color, checks) ==
    IF checks /\ RectOverflows(location, nb_bytes)
    THEN [panic |-> TRUE, pixels |-> pixels]
    ELSE WriteColors(pixels, RectWrites(location, nb_bytes, width, bank_width), color)

\* a faulty variant of settle: the rectangle is drawn on a fresh white buffer
\* instead of self.pixels
SettleOnBlank(cv, section, location, checks) ==
    LET d == draw_rect(BlankPixels(cv.pixels.len), location, section.size, Width(cv),
                       cv.bank_width, FILLED_COLOR, checks)
    IN [panic |-> d.panic, canvas |-> [cv EXCEPT !.pixels = d.pixels]]

\* Canvas::settle: [panic, canvas]; draws on self.pixels
settle(cv, section, location, checks) ==
    LET d == draw_rect(cv.pixels, location, section.size, Width(cv), cv.bank_width,
                       FILLED_COLOR, checks)
    IN [panic |-> d.panic, canvas |-> [cv EXCEPT !.pixels = d.pixels]]

\* Canvas::overlay: [panic, pixels]; draws on a clone of self.pixels
overlay(cv, section, location, checks) ==
    draw_rect(cv.pixels, location, section.size, Width(cv), cv.bank_width,
              OVERLAY_COLOR, checks)

-----------------------------------------------------------------------------
(* Input lines.  A line is given by the tokens the parser's regex and       *)
(* split_once cut it into; a numeric token is given by its value, and the   *)
(* from_str_radix / parse call that reads it fails when the value does not  *)
(* fit the target type.                                                     *)

MemTypes == {"ROM0", "ROMX", "VRAM", "SRAM", "WRAM0", "WRAMX", "OAM", "HRAM"}

LocTokens(bank, addr) == [colon |-> TRUE, bank |-> bank, addr |-> addr]
NoColon == [colon |-> FALSE, bank |-> <<0, 0>>, addr |-> 0]
SecTokens(type, bank, addr, size) ==
    [syntax |-> TRUE, type |-> type, loc |-> LocTokens(bank, addr),
     align_mask |-> 0, align_ofs |-> 0, size |-> size]

NoLocation == [bank |-> <<0, 0>>, addr |-> 0]

\* <Location as FromStr>::from_str
LocationFromStr(t) ==
    IF ~t.colon THEN [ok |-> FALSE, error |-> "MissingColon", value |-> NoLocation]
    ELSE IF ~(t.bank[1] < U16) THEN [ok |-> FALSE, error |-> "BadBank", value |-> NoLocation]
    ELSE IF ~(t.addr < U16) THEN [ok |-> FALSE, error |-> "BadAddr", value |-> NoLocation]
    ELSE [ok |-> TRUE, error |-> "", value |-> [bank |-> t.bank, addr |-> t.addr]]

NoSection == [mem_type |-> "", location |-> NoLocation, size |-> 0]

\* <Section as FromStr>::from_str; align_mask, align_ofs and name are parsed,
\* stored and never read again
SectionFromStr(t) ==
    LET loc == LocationFromStr(t.loc)
        Err(e) == [ok |-> FALSE, error |-> e, value |-> NoSection]
    IN  IF ~t.syntax THEN Err("SyntaxError")
        ELSE IF t.type \notin MemTypes THEN Err("BadType")
        ELSE IF ~loc.ok THEN Err("BadLocation")
        ELSE IF ~(t.align_mask < U16) THEN Err("BadAlignMask")
        ELSE IF ~(t.align_ofs < U16) THEN Err("BadAlignOfs")
        ELSE IF ~(t.size < U16) THEN Err("BadSize")
        ELSE [ok |-> TRUE, error |-> "",
              value |-> [mem_type |-> t.type, location |-> loc.value, size |-> t.size]]

\* the section lines and the attempt lines stdin may hold
SectionLines ==
    { SecTokens("ROMX", U(1), 16384, 64),
      SecTokens("ROM0", U(0), 0, 0),
      SecTokens("VRAM", U(0), 32768, 16),
      SecTokens("ROMX", U(1), 16384, 65536) }
AttemptLines ==
    { LocTokens(U(1), 16416), LocTokens(U(2), 32736), NoColon }

\* the same for the bank-count specification: bank indexes over the u32 range
BankSectionLines ==
    { SecTokens("ROMX", U(1), 16384, 64),
      SecTokens("ROM0", U(0), 0, 64),
      SecTokens("WRAMX", U(1), 53248, 16) }
BankAttemptLines ==
    { LocTokens(b, 16384) : b \in {U(1), U(2), U(5), <<32768, 0>>, <<65535, 65535>>} }

-----------------------------------------------------------------------------
(* Errors *)

NoError == [phase |-> "", kind |-> "", line_no |-> 0, frame |-> [some |-> FALSE, value |-> 0]]

\* ParseError::{BadSection, BadAttempt, AttemptBeforeSection}(.., line_no, line)
ParseError(kind, n) ==
    [phase |-> "parse", kind |-> kind, line_no |-> n, frame |-> [some |-> FALSE, value |-> 0]]

\* impl From<io::Error | openh264::Error | mp4::Error> for RenderError, which
\* is what the ? operator applies to every failing call of render
RenderErrorFrom(kind) ==
    [phase |-> "render", kind |-> kind, line_no |-> 0, frame |-> [some |-> FALSE, value |-> 0]]

-----------------------------------------------------------------------------
(* parse_input: one action per kind of line read by the loop *)

Parsing == pc = "parse" /\ line_no < MaxLines

UNCHANGED_render == UNCHANGED <<overflow_checks, canvas, iter, writer, frame, calls>>

\* an empty line (after trim_start and the strip_suffix calls): continue
ReadBlank ==
    /\ Parsing
    /\ line_no' = line_no + 1
    /\ UNCHANGED <<pc, nb_banks, frames, sections, err>>
    /\ UNCHANGED_render

\* a line starting with '[': a new section, or BadSection
ReadSection(lines) ==
    /\ Parsing
    /\ \E t \in lines :
         LET r == SectionFromStr(t)
         IN  /\ line_no' = line_no + 1
             /\ IF r.ok
                THEN /\ sections' = Append(sections, r.value)
                     /\ UNCHANGED <<pc, err>>
                ELSE /\ pc' = "parse_err"
                     /\ err' = ParseError("BadSection", line_no + 1)
                     /\ UNCHANGED sections
    /\ UNCHANGED <<nb_banks, frames>>
    /\ UNCHANGED_render

\* the bank count after an attempt at bank in a ROMX section
RaisedBanks(count, bank) ==
    IF UGe(bank, count) THEN next_power_of_two(bank) ELSE [overflow |-> FALSE, value |-> count]

\* the section_id parse_input gives a new attempt
CurrentSectionId(secs) == Len(secs) - 1

\* any other line: a new attempt within the last section
ReadAttempt(lines) ==
    /\ Parsing
    /\ \E t \in lines :
         LET r == LocationFromStr(t)
             section_id == CurrentSectionId(sections)
             section == sections[section_id + 1]
             raised == RaisedBanks(nb_banks, r.value.bank)
             pushed == Append(frames, [location |-> r.value, section_id |-> section_id])
         IN  /\ line_no' = line_no + 1
             /\ IF ~r.ok
                THEN /\ pc' = "parse_err"
                     /\ err' = ParseError("BadAttempt", line_no + 1)
                     /\ UNCHANGED <<nb_banks, frames>>
                ELSE IF section_id < 0
                THEN /\ pc' = "parse_err"
                     /\ err' = ParseError("AttemptBeforeSection", line_no + 1)
                     /\ UNCHANGED <<nb_banks, frames>>
                ELSE IF section.mem_type = "ROMX"
                THEN IF raised.overflow /\ overflow_checks
                     THEN /\ pc' = "parse_panic"
                          /\ UNCHANGED <<nb_banks, frames, err>>
                     ELSE /\ nb_banks' = raised.value
                          /\ frames' = pushed
                          /\ UNCHANGED <<pc, err>>
                ELSE IF section.mem_type = "ROM0"
                THEN /\ frames' = pushed
                     /\ UNCHANGED <<pc, nb_banks, err>>
                ELSE UNCHANGED <<pc, nb_banks, frames, err>>       \* continue
    /\ UNCHANGED sections
    /\ UNCHANGED_render

\* stdin.read_line(..)? returns Err: ParseError::Io
ReadFails ==
    /\ pc = "parse"
    /\ pc' = "parse_err"
    /\ err' = ParseError("Io", 0)
    /\ UNCHANGED <<line_no, nb_banks, frames, sections>>
    /\ UNCHANGED_render

\* read_line returns 0: Ok(Sequence { nb_banks, frames, sections })
ReadEof ==
    /\ pc = "parse"
    /\ pc' = "parsed"
    /\ UNCHANGED <<line_no, nb_banks, frames, sections, err>>
    /\ UNCHANGED_render

-----------------------------------------------------------------------------
(* render *)

IsRom(secs, f) == secs[f.section_id + 1].mem_type \in {"ROM0", "ROMX"}

\* the enumerate / map / filter iterator of render: the index (0-based, as
\* enumerate counts) of the first frame at or after from that passes the
\* filter, or -1 when the iterator is exhausted
NextRom(frs, secs, from) ==
    LET passing == { k \in from..(Len(frs) - 1) : IsRom(secs, frs[k + 1]) }
    IN  IF passing = {} THEN -1 ELSE CHOOSE k \in passing : \A m \in passing : k <= m

\* a faulty variant of SettleNeeded: peek() returning None counts as a change
\* of section (map_or(true, ..) in place of map(..) == Some(true))
SettleUnlessSame(frs, i, j) ==
    \/ j = -1
    \/ frs[j + 1].section_id # frs[i + 1].section_id

\* a faulty variant of SettleNeeded: the comparison of the section ids is left
\* out (peek().is_some())
SettleWheneverNext(frs, i, j) == j # -1

\* iter.peek().map(|next| next.section_id != frame.section_id) == Some(true),
\* for the frame at index i and the peeked frame at index j (-1: None)
SettleNeeded(frs, i, j) ==
    /\ j # -1
    /\ frs[j + 1].section_id # frs[i + 1].section_id

\* the arguments of a Canvas call or sample write made for frame i
Call(op, i) ==
    [op |-> op, i |-> i,
     section_id |-> frames[i + 1].section_id,
     size |-> sections[frames[i + 1].section_id + 1].size,
     location |-> frames[i + 1].location]

\* the Mp4Sample render writes for frame i; bytes stands for the encoded
\* picture of the buffer overlay returned for frame i
Sample(i) ==
    [track_id |-> 1, start_time |-> i, duration |-> 1, rendering_offset |-> 0,
     is_sync |-> TRUE, bytes |-> [overlay_of |-> i]]

UNCHANGED_sequence == UNCHANGED <<overflow_checks, line_no, nb_banks, frames, sections>>

\* the code up to the loop: File::create, Canvas::new, Encoder::with_config,
\* Mp4Writer::write_start and add_track; each of the four fallible calls
\* either succeeds or returns Err (kind), and Canvas::new may panic
RenderStart ==
    /\ pc = "parsed"
    /\ LET new == CanvasNew(V(nb_banks), overflow_checks)
       IN  \E outcome \in {"Ok", "Io", "H264", "Mp4"} :
             IF outcome = "Io"                               \* File::create fails
             THEN /\ pc' = "render_err"
                  /\ err' = RenderErrorFrom("Io")
                  /\ UNCHANGED canvas
             ELSE IF new.panic
             THEN /\ pc' = "render_panic"
                  /\ UNCHANGED <<canvas, err>>
             ELSE IF outcome = "H264"                        \* Encoder::with_config fails
             THEN /\ pc' = "render_err"
                  /\ err' = RenderErrorFrom("H264")
                  /\ UNCHANGED canvas
             ELSE IF outcome = "Mp4"                         \* write_start fails
             THEN /\ pc' = "render_err"
                  /\ err' = RenderErrorFrom("Mp4")
                  /\ UNCHANGED canvas
             ELSE IF Width(new.canvas) >= U16                \* u16::try_from(width).unwrap()
             THEN /\ pc' = "render_panic"
                  /\ UNCHANGED <<canvas, err>>
             ELSE /\ pc' = "loop"
                  /\ canvas' = new.canvas
                  /\ UNCHANGED err
    /\ iter' = 0
    /\ UNCHANGED <<writer, frame, calls>>
    /\ UNCHANGED_sequence

\* one turn of the while-let loop, for the frame at index i that iter.next()
\* returns: overlay, encode (Ok, or Err: "H264"), write_sample (Ok, or Err:
\* "Mp4"), then the peek and the settle
RenderFrame ==
    /\ pc = "loop"
    /\ LET i == NextRom(frames, sections, iter)
           j == NextRom(frames, sections, i + 1)
           f == frames[i + 1]
           section == sections[f.section_id + 1]
           ov == overlay(canvas, section, f.location, overflow_checks)
           st == settle(canvas, section, f.location, overflow_checks)
       IN  /\ i # -1
           /\ iter' = i + 1
           /\ \E outcome \in {"Ok", "H264", "Mp4"} :
                IF ov.panic
                THEN /\ pc' = "render_panic"
                     /\ calls' = calls \o <<Call("overlay", i)>>
                     /\ UNCHANGED <<canvas, writer, frame, err>>
                ELSE IF outcome # "Ok"
                THEN /\ pc' = "render_err"
                     /\ err' = RenderErrorFrom(outcome)
                     /\ frame' = ov.pixels
                     /\ calls' = calls \o <<Call("overlay", i)>>
                     /\ UNCHANGED <<canvas, writer>>
                ELSE /\ frame' = ov.pixels
                     /\ writer' = Append(writer, Sample(i))
                     /\ UNCHANGED err
                     /\ IF SettleNeeded(frames, i, j)
                        THEN /\ calls' = calls \o <<Call("overlay", i), Call("sample", i),
                                                    Call("settle", i)>>
                             /\ canvas' = st.canvas
                             /\ pc' = IF st.panic THEN "render_panic" ELSE "loop"
                        ELSE /\ calls' = calls \o <<Call("overlay", i), Call("sample", i)>>
                             /\ UNCHANGED <<canvas, pc>>
    /\ UNCHANGED_sequence

\* the iterator is exhausted and write_end succeeds: Ok(())
RenderEnd ==
    /\ pc = "loop"
    /\ NextRom(frames, sections, iter) = -1
    /\ pc' = "done"
    /\ UNCHANGED <<canvas, iter, writer, frame, calls, err>>
    /\ UNCHANGED_sequence

\* the iterator is exhausted and write_end returns Err
RenderEndFails ==
    /\ pc = "loop"
    /\ NextRom(frames, sections, iter) = -1
    /\ pc' = "render_err"
    /\ err' = RenderErrorFrom("Mp4")
    /\ UNCHANGED <<canvas, iter, writer, frame, calls>>
    /\ UNCHANGED_sequence

-----------------------------------------------------------------------------
(* The program: main runs parse_input, then render *)

Init ==
    /\ overflow_checks \in BOOLEAN
    /\ pc = "parse"
    /\ line_no = 0
    /\ nb_banks = U(2)
    /\ frames = <<>>
    /\ sections = <<>>
    /\ canvas = NoCanvas
    /\ iter = 0
    /\ writer = <<>>
    /\ frame = NoFrame
    /\ calls = <<>>
    /\ err = NoError

Next ==
    \/ ReadSection(SectionLines)
    \/ ReadAttempt(AttemptLines)
    \/ ReadFails
    \/ ReadEof
    \/ RenderStart
    \/ RenderFrame
    \/ RenderEnd
    \/ RenderEndFails

Spec == Init /\ [][Next]_vars

-----------------------------------------------------------------------------
(* parse_input alone, with bank indexes over the whole u32 range *)

NextBanks ==
    \/ ReadBlank
    \/ ReadSection(BankSectionLines)
    \/ ReadAttempt(BankAttemptLines)
    \/ ReadFails
    \/ ReadEof

SpecBanks == Init /\ [][NextBanks]_vars

-----------------------------------------------------------------------------
(* The Canvas alone: any sequence of settle and overlay calls on the canvas *)
(* of a two-bank Sequence                                                   *)

DrawSection(size) == [mem_type |-> "ROMX", location |-> [bank |-> U(1), addr |-> 16384], size |-> size]

\* <<size of the section, bank, addr>> of the calls made
DrawInputs ==
    { <<64, 1, 16384>>,      \* rows 0..1 of bank 1
      <<64, 0, 16368>>,      \* capped at the end of bank 0
      <<16, 0, 32>>,         \* row 1 of bank 0
      <<0, 1, 16416>>,       \* an empty section
      <<0, 0, 0>>,           \* an empty section at address 0
      <<64, 2, 0>>,          \* bank 2: the bank count of the canvas
      <<64, 2, 32736>> }     \* bank 2, last row

InitCanvas ==
    /\ overflow_checks \in BOOLEAN
    /\ pc = "canvas"
    /\ line_no = 0
    /\ nb_banks = U(2)
    /\ frames = <<>>
    /\ sections = <<>>
    /\ canvas = CanvasNew(2, overflow_checks).canvas
    /\ iter = 0
    /\ writer = <<>>
    /\ frame = NoFrame
    /\ calls = <<>>
    /\ err = NoError

DrawCall(op, d) ==
    [op |-> op, i |-> Len(calls), section_id |-> 0, size |-> d[1],
     location |-> [bank |-> U(d[2]), addr |-> d[3]]]

CanvasSettle ==
    /\ pc = "canvas"
    /\ Len(calls) < MaxCalls
    /\ \E d \in DrawInputs :
         LET st == settle(canvas, DrawSection(d[1]), [bank |-> U(d[2]), addr |-> d[3]],
                          overflow_checks)
         IN  /\ calls' = Append(calls, DrawCall("settle", d))
             /\ canvas' = st.canvas
             /\ pc' = IF st.panic THEN "render_panic" ELSE "canvas"
    /\ UNCHANGED <<frame, iter, writer, err>>
    /\ UNCHANGED_sequence

CanvasOverlay ==
    /\ pc = "canvas"
    /\ Len(calls) < MaxCalls
    /\ \E d \in DrawInputs :
         LET ov == overlay(canvas, DrawSection(d[1]), [bank |-> U(d[2]), addr |-> d[3]],
                           overflow_checks)
         IN  /\ calls' = Append(calls, DrawCall("overlay", d))
             /\ IF ov.panic
                THEN pc' = "render_panic" /\ UNCHANGED frame
                ELSE frame' = ov.pixels /\ UNCHANGED pc
    /\ UNCHANGED <<canvas, iter, writer, err>>
    /\ UNCHANGED_sequence

NextCanvas == CanvasSettle \/ CanvasOverlay

SpecCanvas == InitCanvas /\ [][NextCanvas]_vars

-----------------------------------------------------------------------------
(* Canvas::new alone, for every bank count up to MaxNbBanks *)

InitGeom ==
    /\ overflow_checks \in BOOLEAN
    /\ pc = "geom"
    /\ line_no = 0
    /\ nb_banks \in { U(n) : n \in 1..MaxNbBanks }
    /\ frames = <<>>
    /\ sections = <<>>
    /\ canvas = NoCanvas
    /\ iter = 0
    /\ writer = <<>>
    /\ frame = NoFrame
    /\ calls = <<>>
    /\ err = NoError

GeomNew ==
    /\ pc = "geom"
    /\ LET new == CanvasNew(V(nb_banks), overflow_checks)
       IN  /\ canvas' = new.canvas
           /\ pc' = IF new.panic THEN "render_panic" ELSE "geom_done"
    /\ UNCHANGED <<iter, writer, frame, calls, err>>
    /\ UNCHANGED_sequence

NextGeom == GeomNew

SpecGeom == InitGeom /\ [][NextGeom]_vars

-----------------------------------------------------------------------------
(* Properties.  The history variable calls holds, in the order render made  *)
(* them, the overlay calls, the sample writes and the settle calls, each    *)
(* with the index i of its attempt and the arguments it was given.          *)

LastCall == calls[Len(calls)]
SectionIds == [k \in 1..Len(frames) |-> frames[k].section_id]
SettleCalls == { p \in 1..Len(calls) : calls[p].op = "settle" }

\* the pixels of the canvas that lie in the rectangle of a placement:
\* columns [bank * (bank_width + 2), bank * (bank_width + 2) + bank_width),
\* rows (addr mod 16384) / 32 to min(addr mod 16384 + nb_bytes - 1, 16383) / 32
Rectangle(cv, location, nb_bytes) ==
    LET x0 == V(location.bank) * (cv.bank_width + 2)
        local == location.addr % 16384
    IN  { x + y * Width(cv) :
            x \in (x0..(x0 + cv.bank_width - 1)) \cap (0..(Width(cv) - 1)),
            y \in (local \div 32)..(Min(local + nb_bytes - 1, 16383) \div 32) }

\* C1: render calls settle for attempt i, with the section and the location of
\* attempt i, right after the sample of attempt i is written and before
\* anything is done for attempt i + 1, if and only if attempt i + 1 exists and
\* has another section than attempt i; in particular never for the last
\* attempt, and never without the sample of the attempt having been written.
C1_SettleIffSectionChanges ==
    /\ \A p \in 1..Len(calls) :
         calls[p].op = "sample" =>
            LET i == calls[p].i
                settled == /\ p < Len(calls)
                           /\ calls[p + 1].op = "settle"
                           /\ calls[p + 1].i = i
                           /\ calls[p + 1].location = frames[i + 1].location
                           /\ calls[p + 1].section_id = frames[i + 1].section_id
                changes == /\ i + 2 <= Len(frames)
                           /\ frames[i + 2].section_id # frames[i + 1].section_id
            IN  settled <=> changes
    /\ \A p \in SettleCalls :
         /\ p > 1
         /\ calls[p - 1].op = "sample"
         /\ calls[p - 1].i = calls[p].i

\* C1, its case: the list [(S1,L1a), (S1,L1b), (S2,L2a)] has been rendered to
\* the end; three samples were written and the one settle made is that of the
\* second attempt.
C1_ThreeAttemptsOneSettle ==
    /\ pc = "done"
    /\ SectionIds = <<0, 0, 1>>
    /\ Len(writer) = 3
    /\ Cardinality(SettleCalls) = 1
    /\ \A p \in SettleCalls : calls[p].i = 1

\* C2: when render ends without a failing encoder, muxer or file call, it
\* ends with Ok(()) and has written one sample per attempt of the Sequence, in
\* list order: the k-th sample (0-based) holds the overlay of attempt k, with
\* start time k and duration 1.  With no attempt, no sample is written.
C2_EveryAttemptEmitted ==
    pc \in {"done", "render_panic"} =>
        /\ pc = "done"
        /\ Len(writer) = Len(frames)
        /\ \A k \in 1..Len(writer) :
             /\ writer[k].start_time = k - 1
             /\ writer[k].duration = 1
             /\ writer[k].bytes = [overlay_of |-> k - 1]

\* C3: the buffer an overlay call returns has the in-progress colour at every
\* pixel of the rectangle of the placement and, at every other pixel, the
\* colour the permanent buffer has at that pixel.
C3_OverlayDiffersOnlyInRectangle ==
    (pc = "canvas" /\ calls # <<>> /\ LastCall.op = "overlay") =>
        LET rect == Rectangle(canvas, LastCall.location, LastCall.size)
        IN  /\ frame.len = canvas.pixels.len
            /\ rect \subseteq frame.ink[OVERLAY_COLOR]
            /\ \A c \in Inks : frame.ink[c] \ rect = canvas.pixels.ink[c] \ rect

\* C4: in every step, whatever call it makes, each pixel of the permanent
\* buffer that holds the committed colour (0,255,0) still holds it afterwards;
\* so a committed pixel is never white again.
C4_CommittedStaysCommitted ==
    [][canvas.pixels.ink[<<0, 255, 0>>] \subseteq canvas'.pixels.ink[<<0, 255, 0>>]]_vars

\* C4, its case: a settle committed rows 0 and 1 of bank 1 (pixel 32 is the
\* first of them), and a second settle, of another placement, came after it.
C4_SettledTwice ==
    /\ pc = "canvas"
    /\ Len(calls) = 2
    /\ calls[1].op = "settle"
    /\ calls[1].location = [bank |-> U(1), addr |-> 16384]
    /\ calls[1].size = 64
    /\ calls[2].op = "settle"
    /\ calls[2].location # calls[1].location
    /\ 32 \in canvas.pixels.ink[<<0, 255, 0>>]

\* C5: in the Sequence parse_input returns, the bank of every attempt is
\* below nb_banks.
C5_BankBelowCount ==
    pc = "parsed" =>
        \A k \in 1..Len(frames) : ULt(frames[k].location.bank, nb_banks)

\* C6: whatever lines parse_input has read, the bank count is a power of two
\* that is at least 2.
C6_CountIsPowerOfTwo ==
    nb_banks \in { <<0, 2^k>> : k \in 1..15 } \cup { <<2^k, 0>> : k \in 0..15 }

\* C7: the canvas Canvas::new returns for nb_banks has
\* bank_width = min(((1024 / nb_banks) rounded down to even) - 2, 30), which
\* is even and at most 30; width() is (bank_width + 2) * nb_banks - 2 and at
\* most 1024; two banks give bank_width 30 and width 62; and the buffer holds
\* width() * 512 pixels of 3 bytes.
C7_Geometry ==
    pc = "geom_done" =>
        LET nb == V(nb_banks)
            bank_width == canvas.bank_width
            rounded == (1024 \div nb) - ((1024 \div nb) % 2)
        IN  /\ canvas.nb_banks = nb
            /\ bank_width = Min(rounded - 2, 30)
            /\ bank_width % 2 = 0
            /\ bank_width + 2 <= 32
            /\ Width(canvas) = (bank_width + 2) * nb - 2
            /\ Width(canvas) <= 1024
            /\ nb = 2 => (bank_width = 30 /\ Width(canvas) = 62)
            /\ canvas.pixels.len = Width(canvas) * 512 * 3

\* C7, its case: 33 banks, where 1024 / 33 = 31 is rounded down to 30.
C7_ThirtyThreeBanks ==
    /\ pc = "geom_done"
    /\ V(nb_banks) = 33
    /\ canvas.bank_width = 28
    /\ Width(canvas) = 988

\* C8: for every overlay and settle call render makes, the rows draw_rect
\* computes satisfy 0 <= first_row <= last_row <= 511.
C8_RowsOrdered ==
    \A p \in 1..Len(calls) :
        calls[p].op \in {"overlay", "settle"} =>
            LET first_row == FirstByteRow(calls[p].location)
                last_row == LastByteRow(calls[p].location, calls[p].size)
            IN  0 <= first_row /\ first_row <= last_row /\ last_row <= 511

\* C9: when the encoder or the muxer fails while attempt i is processed (the
\* last call made is the overlay of attempt i), the RenderError that render
\* returns carries the frame index i.
C9_ErrorCarriesFrame ==
    (pc = "render_err" /\ calls # <<>> /\ LastCall.op = "overlay") =>
        err.frame = [some |-> TRUE, value |-> LastCall.i]

\* C10: the section ids of the attempt list never decrease; a settle is made
\* for the last attempt of its section; and once a section has been settled,
\* no later overlay, sample or settle is of that section.
C10_SectionsSettledOnce ==
    /\ \A k \in 1..(Len(frames) - 1) : frames[k].section_id <= frames[k + 1].section_id
    /\ \A p \in SettleCalls :
         /\ \A k \in 1..Len(frames) :
              frames[k].section_id = calls[p].section_id => k - 1 <= calls[p].i
         /\ \A q \in (p + 1)..Len(calls) : calls[q].section_id # calls[p].section_id

\* C10, its case: three sections, the second without attempts; the first was
\* settled and the third was drawn after it.
C10_SettledThenNextSection ==
    /\ pc = "done"
    /\ Len(sections) = 3
    /\ SectionIds = <<0, 2>>
    /\ \E p \in SettleCalls : calls[p].section_id = 0 /\ p < Len(calls)

====
